---- MODULE Spec2Model ----
(***************************************************************************)
(* A model of red, a line editor in the style of ed(1).                    *)
(*   src/src/buffer.rs  the Buffer: lines, 26 marks, the changed flag and  *)
(*                      the splice primitive replace_iter                  *)
(*   src/src/main.rs    the State, address resolution (line_to_index,      *)
(*                      find_regex, extract_addr_range) and exec_command   *)
(*   src/src/parser.rs  the shapes of AddressRange, Address and Command    *)
(*                                                                         *)
(* Option<T> is modelled as a set with at most one element: None is {} and *)
(* Some(x) is {x}.  A line is a sequence of one-character strings.  A      *)
(* regular expression is modelled by the literal patterns of one           *)
(* character (which match every line containing that character) and one   *)
(* pattern that does not compile.                                          *)
(*                                                                         *)
(* main.rs reads and writes s.buffer.curline although the Buffer of        *)
(* buffer.rs declares no such field; the model keeps curline as the        *)
(* current line index, 0 in a fresh Buffer, touched only where main.rs     *)
(* assigns it.                                                             *)
(***************************************************************************)
EXTENDS Integers, Sequences, FiniteSets, TLC

\* ------------------------------------------------------------------ bounds
\* longest buffer the model lets the commands build
MaxLen == 3
\* longest text block typed in insert-mode
MaxBlock == 2
\* number of mark slots modelled (the program has 26)
NumMarks == 1
\* longest line of the buffers written and loaded again
MaxLineLen == 2
\* most flag characters typed behind one command
MaxFlags == 6

\* ------------------------------------------------------------------ values
None == {}

Some(x) == {x}

IsSome(o) == o # {}

Unwrap(o) == CHOOSE x \in o : TRUE

Min(a, b) == IF a < b THEN a ELSE b

NL == "\n"

CR == "\r"

\* the lines a user types in insert-mode, and the text blocks made of them
TypedLines == {<<"a">>}

SeqsUpTo(S, n) == UNION {[1..k -> S] : k \in 0..n}

Blocks == SeqsUpTo(TypedLines, MaxBlock)

Marks == 0..(NumMarks - 1)

\* error texts of CommandError::new, and of the TryFromIntError conversion
OK == "ok"

InvalidAddress == "invalid address"

InvalidMark == "invalid mark"

ExpectedSingleLine == "Expected single line"

NoMatch == "no match"

NoPreviousSearch == "no previous search"

InvalidRegex == "invalid regex"

InvalidPath == "invalid path"

FileModified == "warning: file modified"

CommandFailed == "Command failed"

TryFromIntError == "out of range integral type conversion attempted"

VARIABLES lines, marks, changed, curline, last_match, pc, last

vars == <<lines, marks, changed, curline, last_match, pc, last>>

\* ------------------------------------------------------------ buffer.rs
\* Buffer::new and the Buffer of from_iter: no marks, not changed
NoMarks == [m \in Marks |-> None]

\* Vec::splice(start..end, blk): the lines before start, blk, the lines from end
splice(ls, start, end, blk) ==
    SubSeq(ls, 1, start) \o blk \o SubSeq(ls, end + 1, Len(ls))

\* RangeBounds::contains for the half-open start..end
range_contains(start, end, item) == start <= item /\ item < end

\* range_after as it would be were the end of start..end taken as Included
range_after_included(end, item) == item > end

\* range_after for the Excluded(end) bound of start..end
range_after(end, item) == item >= end

\* shift_mark as it would be did replace_iter keep the marks of replaced lines
shift_mark_keeping(mark, start, end, diff) ==
    IF IsSome(mark)
    THEN IF range_after(end, Unwrap(mark)) THEN Some(Unwrap(mark) - diff)
         ELSE Some(Unwrap(mark))
    ELSE mark

\* the new value of one mark slot in replace_iter
shift_mark(mark, start, end, diff) ==
    IF IsSome(mark)
    THEN IF range_contains(start, end, Unwrap(mark)) THEN None
         ELSE IF range_after(end, Unwrap(mark)) THEN Some(Unwrap(mark) - diff)
         ELSE Some(Unwrap(mark))
    ELSE mark

\* replace_iter panics when the Vec rejects the range or a shifted mark
\* does not fit a usize (try_from(..).unwrap())
replace_panics(s, start, end, blk) ==
    \/ start > end
    \/ end > Len(s.lines)
    \/ \E m \in Marks :
         /\ IsSome(s.marks[m])
         /\ ~range_contains(start, end, Unwrap(s.marks[m]))
         /\ range_after(end, Unwrap(s.marks[m]))
         /\ Unwrap(s.marks[m]) - (Len(s.lines) - Len(splice(s.lines, start, end, blk))) < 0

\* replace_iter as it would be did it splice the lines and leave the marks
replace_iter_unshifted(s, start, end, blk) ==
    [s EXCEPT !.lines = splice(s.lines, start, end, blk), !.changed = TRUE]

\* Buffer::replace_iter(start..end, blk)
replace_iter(s, start, end, blk) ==
    LET old == Len(s.lines)
        new == splice(s.lines, start, end, blk)
        diff == old - Len(new)
    IN  [s EXCEPT !.lines = new,
                  !.marks = [m \in Marks |-> shift_mark(s.marks[m], start, end, diff)],
                  !.changed = TRUE]

\* impl Display for Buffer: every line followed by a newline
RECURSIVE Display(_)
Display(ls) ==
    IF ls = <<>> THEN <<>> ELSE Head(ls) \o <<NL>> \o Display(Tail(ls))

\* BufRead::lines: records end at a newline, a carriage return before it is
\* dropped too, a last record without a newline is kept when not empty
StripCR(l) ==
    IF l # <<>> /\ l[Len(l)] = CR THEN SubSeq(l, 1, Len(l) - 1) ELSE l

RECURSIVE SplitLines(_, _)
SplitLines(bytes, cur) ==
    IF bytes = <<>> THEN (IF cur = <<>> THEN <<>> ELSE <<cur>>)
    ELSE IF Head(bytes) = NL
         THEN <<StripCR(cur)>> \o SplitLines(Tail(bytes), <<>>)
         ELSE SplitLines(Tail(bytes), Append(cur, Head(bytes)))

\* ------------------------------------------------------------ the disk
\* The file system is the environment, and so is the file a name stands for
\* (the argument of the command or the remembered State.file): opening a
\* file fails or yields one of these contents, writing one fails or succeeds.
\* State.file only selects the file and is not part of the model.
FileContents == {<<>>, <<"a", NL>>, <<"b", NL, "a">>}

\* the outcomes of File::open and reading the file
OpenFails == [ok |-> FALSE, content |-> <<>>]

OpenOutcomes == {OpenFails} \cup {[ok |-> TRUE, content |-> c] : c \in FileContents}

\* the outcomes of fs::write
WriteFails == [ok |-> FALSE, content |-> <<>>]

WriteOutcomes == {WriteFails, [ok |-> TRUE, content |-> <<>>]}

\* a command that does not touch the disk
NoIO == [ok |-> TRUE, content |-> <<>>]

\* read_to_buffer on an opened file: a fresh Buffer of its lines
read_to_buffer(content) == SplitLines(content, <<>>)

\* ------------------------------------------------------------ the State
\* State::default()
DefaultState ==
    [lines |-> <<>>, marks |-> NoMarks, changed |-> FALSE, curline |-> 0,
     last_match |-> [idx |-> None, re |-> None]]

\* read_file: a State around the loaded Buffer, everything else default
read_file(content) == [DefaultState EXCEPT !.lines = read_to_buffer(content)]

\* the program's State as a record
Cur ==
    [lines |-> lines, marks |-> marks, changed |-> changed, curline |-> curline,
     last_match |-> last_match]

\* ------------------------------------------------------------ parser.rs
\* Address
Abs(c) == [t |-> "Abs", c |-> c]

Rel(c) == [t |-> "Rel", c |-> c]

Mark(m) == [t |-> "Mark", c |-> m]

\* AddressRange; NoRe is the omitted pattern, NoRange the omitted range
NoRe == "<none>"

BadRe == "("

Patterns == {"a"}

Range(f, t) == [t |-> "Range", f |-> f, to |-> t]

SearchNext(re) == [t |-> "Next", re |-> re]

SearchPrev(re) == [t |-> "Prev", re |-> re]

NoRange == [t |-> "None"]

\* parse_special_range: `%` and `,` stand for the whole buffer
WholeBuffer == Range(Abs(0), Abs(0 - 1))

\* PrintFlag
PrintFlags == {"None", "Print", "Number"}

\* print_flag_set as it would be did the last flag character win
print_flag_set_last(fs, flag) == flag

\* print_flag_set
print_flag_set(fs, flag) ==
    IF fs = "None" \/ (fs = "Print" /\ flag = "Number") THEN flag ELSE fs

\* parse_flag on a flag character
parse_flag(c) == IF c = "n" THEN "Number" ELSE "Print"

\* the addresses and ranges the model types: `N`, `$`, `+`, `-`, `.`, `'x`,
\* `%`, `;`, `N,M` with N < M, `2,1` and the searches
Addresses ==
    {Abs(c) : c \in (0 - 1)..MaxLen} \cup {Rel(c) : c \in (0 - 1)..1}
        \cup {Mark(m) : m \in Marks}

Searches ==
    {SearchNext(re) : re \in Patterns \cup {NoRe, BadRe}}
        \cup {SearchPrev(re) : re \in Patterns \cup {NoRe, BadRe}}

Ranges ==
    {NoRange} \cup {Range(a, a) : a \in Addresses}
        \cup {WholeBuffer, Range(Rel(0), Abs(0 - 1))}
        \cup {Range(Abs(p[1]), Abs(p[2])) :
                 p \in {q \in (0..MaxLen) \X (0..MaxLen) : q[1] < q[2]}}
        \cup {Range(Abs(1), Abs(0))}
        \cup Searches

\* the ranges typed in front of the commands that do not use the range
FewRanges == {NoRange, Range(Mark(0), Mark(0)), SearchNext("a"), SearchNext(NoRe)}

\* ------------------------------------------------------------ main.rs
\* a Result<usize>
Ok(v) == [err |-> OK, v |-> v]

Err(e) == [err |-> e, v |-> 0]

\* line_to_index as it would be did a negative Abs count back from the line
\* behind the last
line_to_index_from_len(s, l) ==
    IF l.t = "Abs"
    THEN IF l.c < 0
         THEN IF Len(s.lines) + l.c + 1 < 0 THEN Err(TryFromIntError)
              ELSE Ok(Len(s.lines) + l.c + 1)
         ELSE Ok(l.c)
    ELSE IF l.t = "Rel"
    THEN IF s.curline + l.c < 0 THEN Err(TryFromIntError) ELSE Ok(s.curline + l.c)
    ELSE IF IsSome(s.marks[l.c]) THEN Ok(Unwrap(s.marks[l.c])) ELSE Err(InvalidMark)

\* line_to_index: the index an Address stands for; a negative index does not
\* convert to usize
line_to_index(s, l) ==
    IF l.t = "Abs"
    THEN IF l.c < 0
         THEN IF Len(s.lines) + l.c < 0 THEN Err(TryFromIntError)
              ELSE Ok(Len(s.lines) + l.c)
         ELSE Ok(l.c)
    ELSE IF l.t = "Rel"
    THEN IF s.curline + l.c < 0 THEN Err(TryFromIntError) ELSE Ok(s.curline + l.c)
    ELSE IF IsSome(s.marks[l.c]) THEN Ok(Unwrap(s.marks[l.c])) ELSE Err(InvalidMark)

\* Regex::is_match of a one-character literal: the line contains it
is_match(r, l) == \E k \in 1..Len(l) : l[k] = r

\* the 0-based indices a..b in ascending order (empty when a > b)
Upto(a, b) == [k \in 1..(b - a + 1) |-> a + k - 1]

Reverse(q) == [k \in 1..Len(q) |-> q[Len(q) + 1 - k]]

\* forward_order as it would be did the scan start at line i itself
forward_order_from_i(n, i) == Upto(i, n - 1) \o Upto(0, Min(i, n) - 1)

\* find_regex, forward: enumerate().skip(i + 1) chained with
\* enumerate().take(i + 1), searched by find from the front
forward_order(n, i) == Upto(i + 1, n - 1) \o Upto(0, Min(i + 1, n) - 1)

\* backward_order as it would be did find search the chain from the front
backward_order_find(n, i) == Upto(i, n - 1) \o Upto(0, Min(i, n) - 1)

\* find_regex, backward: enumerate().skip(i) chained with enumerate().take(i),
\* searched by rfind from the back
backward_order(n, i) == Reverse(Upto(i, n - 1) \o Upto(0, Min(i, n) - 1))

\* the position in order of the first line matching r, 0 when none matches
first_match(ls, order, r) ==
    IF \E k \in 1..Len(order) : is_match(r, ls[order[k] + 1])
    THEN CHOOSE k \in 1..Len(order) :
            /\ is_match(r, ls[order[k] + 1])
            /\ \A j \in 1..(k - 1) : ~is_match(r, ls[order[j] + 1])
    ELSE 0

\* find_regex: [err, i: the matched index, lm: last_match afterwards,
\* scanned: whether the buffer was scanned, re: the pattern scanned for,
\* start: the index the scan started from, cmp: the lines compared]
find_regex(s, regex, forward) ==
    LET fail(e, lm) ==
            [err |-> e, i |-> 0, lm |-> lm, scanned |-> FALSE, re |-> NoRe,
             start |-> 0, cmp |-> 0]
        scan(i, r, lm) ==
            LET order == IF forward THEN forward_order(Len(s.lines), i)
                         ELSE backward_order(Len(s.lines), i)
                k == first_match(s.lines, order, r)
            IN  IF k = 0
                THEN [err |-> NoMatch, i |-> 0, lm |-> lm, scanned |-> TRUE,
                      re |-> r, start |-> i, cmp |-> Len(order)]
                ELSE [err |-> OK, i |-> order[k],
                      lm |-> [lm EXCEPT !.idx = Some(order[k])], scanned |-> TRUE,
                      re |-> r, start |-> i, cmp |-> k]
    IN  IF regex # NoRe
        THEN IF regex = BadRe THEN fail(InvalidRegex, s.last_match)
             ELSE scan(s.curline, regex, [s.last_match EXCEPT !.re = Some(regex)])
        ELSE IF ~IsSome(s.last_match.idx) \/ ~IsSome(s.last_match.re)
             THEN fail(NoPreviousSearch, s.last_match)
             ELSE scan(Unwrap(s.last_match.idx), Unwrap(s.last_match.re), s.last_match)

\* is_line as it would be did it accept every range
is_line_any(from, to) == Ok(to)

\* is_line
is_line(from, to) == IF from # to THEN Err(ExpectedSingleLine) ELSE Ok(to)

\* is_valid
is_valid(s, i) == IF i < Len(s.lines) THEN Ok(i) ELSE Err(InvalidAddress)

\* what a command line without a search address records of the search
NoSearch ==
    [dir |-> "None", pat |-> NoRe, scanned |-> FALSE, re |-> NoRe, start |-> 0, cmp |-> 0]

\* extract_addr_range: [err, from, to, lm: last_match afterwards, search: the
\* direction and the pattern of the search address and the scan find_regex
\* made]
extract_addr_range(s, range) ==
    LET res(e, f, t, lm) ==
            [err |-> e, from |-> f, to |-> t, lm |-> lm, search |-> NoSearch]
    IN  IF range.t = "Range"
        THEN LET from == line_to_index(s, range.f)
                 to == line_to_index(s, range.to)
             IN  IF from.err # OK THEN res(from.err, 0, 0, s.last_match)
                 ELSE IF to.err # OK THEN res(to.err, 0, 0, s.last_match)
                 ELSE IF from.v > to.v THEN res(InvalidAddress, 0, 0, s.last_match)
                 ELSE res(OK, from.v, to.v, s.last_match)
        ELSE IF range.t \in {"Next", "Prev"}
        THEN LET r == find_regex(s, range.re, range.t = "Next")
             IN  [err |-> r.err, from |-> r.i, to |-> r.i, lm |-> r.lm,
                  search |-> [dir |-> range.t, pat |-> range.re, scanned |-> r.scanned,
                              re |-> r.re, start |-> r.start, cmp |-> r.cmp]]
        ELSE LET c == line_to_index(s, Rel(0))
             IN  res(c.err, c.v, c.v, s.last_match)

\* the call of replace_iter a command made: on the range start..end, or none
NoSplice == [done |-> FALSE, start |-> 0, end |-> 0]

\* the ways one command line ends: its Result, a panic, or process::exit
Done(s) == [s |-> s, err |-> OK, end |-> "cmd", splice |-> NoSplice]

Fail(s, e) == [s |-> s, err |-> e, end |-> "cmd", splice |-> NoSplice]

Panic(s) == [s |-> s, err |-> "panic", end |-> "panic", splice |-> NoSplice]

Exit(s) == [s |-> s, err |-> OK, end |-> "exit", splice |-> NoSplice]

\* a call of replace_iter(start..end, blk), which panics or returns
Replace(s, start, end, blk) ==
    IF replace_panics(s, start, end, blk) THEN Panic(s)
    ELSE [s |-> replace_iter(s, start, end, blk), err |-> OK, end |-> "cmd",
          splice |-> [done |-> TRUE, start |-> start, end |-> end]]

\* buffer_insert: replace_iter(line..line, buf)
buffer_insert(s, line, buf) == Replace(s, line, line, buf)

\* exec_bare as it would be were the current line assigned before is_line is
\* asked
exec_bare_early(s, from, to, flags) ==
    IF is_valid(s, from).err # OK THEN Fail(s, is_valid(s, from).err)
    ELSE IF is_valid(s, to).err # OK THEN Fail(s, is_valid(s, to).err)
    ELSE IF flags = "None"
         THEN IF is_line(from, to).err # OK
              THEN Fail([s EXCEPT !.curline = to], is_line(from, to).err)
              ELSE Done([s EXCEPT !.curline = is_line(from, to).v])
         ELSE Done(s)

\* exec_command, no command: the bare address
exec_bare(s, from, to, flags) ==
    IF is_valid(s, from).err # OK THEN Fail(s, is_valid(s, from).err)
    ELSE IF is_valid(s, to).err # OK THEN Fail(s, is_valid(s, to).err)
    ELSE IF flags = "None"
         THEN IF is_line(from, to).err # OK THEN Fail(s, is_line(from, to).err)
              ELSE Done([s EXCEPT !.curline = is_line(from, to).v])
         ELSE Done(s)

\* exec_command, Command::Append
exec_append(s, from, to, b) ==
    IF is_line(from, to).err # OK THEN Fail(s, is_line(from, to).err)
    ELSE LET line == is_line(from, to).v
         IN  buffer_insert(s, IF is_valid(s, line + 1).err = OK THEN line + 1 ELSE line, b)

\* exec_command, Command::Insert
exec_insert(s, from, to, b) ==
    IF is_line(from, to).err # OK THEN Fail(s, is_line(from, to).err)
    ELSE buffer_insert(s, is_line(from, to).v, b)

\* exec_command, Command::Change
exec_change(s, from, to, b) ==
    IF is_valid(s, from).err # OK THEN Fail(s, is_valid(s, from).err)
    ELSE IF is_valid(s, to).err # OK THEN Fail(s, is_valid(s, to).err)
    ELSE Replace(s, from, to + 1, b)

\* exec_command, Command::Delete: the current line moves on by one when that
\* is a line of the buffer after the deletion
exec_delete(s, from, to) ==
    IF is_valid(s, from).err # OK THEN Fail(s, is_valid(s, from).err)
    ELSE IF is_valid(s, to).err # OK THEN Fail(s, is_valid(s, to).err)
    ELSE LET d == Replace(s, from, to + 1, <<>>)
         IN  IF d.end = "panic" THEN d
             ELSE [d EXCEPT !.s.curline =
                      IF is_valid(d.s, d.s.curline + 1).err = OK THEN d.s.curline + 1
                      ELSE d.s.curline]

\* exec_command, Command::Edit(f); open is the outcome of opening the path
exec_edit(s, open) ==
    IF s.changed THEN Fail([s EXCEPT !.changed = FALSE], FileModified)
    ELSE IF ~open.ok THEN Fail(s, InvalidPath)
    ELSE Done(read_file(open.content))

\* exec_command, Command::Mark(m)
exec_mark(s, from, to, m) ==
    IF is_valid(s, from).err # OK THEN Fail(s, is_valid(s, from).err)
    ELSE IF is_valid(s, to).err # OK THEN Fail(s, is_valid(s, to).err)
    ELSE IF is_line(from, to).err # OK THEN Fail(s, is_line(from, to).err)
    ELSE Done([s EXCEPT !.marks[m] = Some(is_line(from, to).v)])

\* exec_command, Command::Read(f); open is the outcome of opening the path
exec_read(s, from, to, open) ==
    IF ~open.ok THEN Fail(s, InvalidPath)
    ELSE IF is_line(from, to).err # OK THEN Fail(s, is_line(from, to).err)
    ELSE buffer_insert(s, is_line(from, to).v + 1, read_to_buffer(open.content))

\* exec_command, Command::Write(f) with write_file; wrote is the outcome of
\* fs::write
exec_write(s, wrote) == IF wrote.ok THEN Done(s) ELSE Fail(s, InvalidPath)

\* exec_quit as it would be did the refusal leave the changed flag set
exec_quit_keeping(s) == IF s.changed THEN Fail(s, FileModified) ELSE Exit(s)

\* exec_command, Command::Quit
exec_quit(s) ==
    IF s.changed THEN Fail([s EXCEPT !.changed = FALSE], FileModified)
    ELSE Exit(s)

\* exec_command, Command::CurLine: prints the current line number
exec_curline(s) == Done(s)

\* the greater of two numbers
Max(a, b) == IF a > b THEN a ELSE b

\* print_range: the lines from..to that exist, as [n: the number printed in
\* front of the line, 0 for none, s: the line]
print_range(ls, from, to, flags) ==
    [k \in 1..Min(to - from + 1, Max(Len(ls) - from, 0)) |->
        [n |-> IF flags = "Number" THEN from + k ELSE 0, s |-> ls[from + k]]]

\* the print flag at the end of exec_command: a bare address without a flag
\* sets the current line and prints it
flags_after(op, flags) ==
    IF op = "Bare" /\ flags = "None" THEN print_flag_set(flags, "Print") ELSE flags

\* exec_command, the end: what a command that returned Ok echoes of the
\* buffer it leaves
echo(res, op, flags, from, to) ==
    IF res.end = "cmd" /\ res.err = OK /\ flags_after(op, flags) # "None"
    THEN print_range(res.s.lines, from, to, flags_after(op, flags))
    ELSE <<>>

\* exec_command, the match on the command: op is the command ("Bare" for
\* none), arg its argument and io what the disk does for a file command
exec_arm(s, op, arg, io, from, to) ==
    CASE op = "Bare" -> exec_bare(s, from, to, arg)
      [] op = "Append" -> exec_append(s, from, to, arg)
      [] op = "Insert" -> exec_insert(s, from, to, arg)
      [] op = "Change" -> exec_change(s, from, to, arg)
      [] op = "Delete" -> exec_delete(s, from, to)
      [] op = "CurLine" -> exec_curline(s)
      [] op = "Edit" -> exec_edit(s, io)
      [] op = "Mark" -> exec_mark(s, from, to, arg)
      [] op = "Read" -> exec_read(s, from, to, io)
      [] op = "Write" -> exec_write(s, io)
      [] op = "Quit" -> exec_quit(s)

\* exec_command after extract_addr_range returned r: the error of the
\* resolution, or the command run on the State the resolution left
exec_resolved(s, r, op, arg, io) ==
    IF r.err # OK
    THEN [res |-> Fail([s EXCEPT !.last_match = r.lm], r.err), resolved |-> FALSE,
          from |-> 0, to |-> 0, search |-> r.search]
    ELSE [res |-> exec_arm([s EXCEPT !.last_match = r.lm], op, arg, io, r.from, r.to),
          resolved |-> TRUE, from |-> r.from, to |-> r.to, search |-> r.search]

\* exec_command: resolve the range (once: r), then run the command
exec_command(s, range, op, arg, io) ==
    CHOOSE x \in {exec_resolved(s, r, op, arg, io) : r \in {extract_addr_range(s, range)}} :
        TRUE

\* ------------------------------------------------------------ the editor
\* The print flag is typed behind a bare address and behind Append, Insert
\* and Change; behind the other commands it only echoes lines of the buffer
\* and is left out.
\*
\* pc is where main stands: "read" before it reads a command line, "report"
\* when exec_command has returned and the Result is about to be reported,
\* "panic" after a panic, "exit" after process::exit.
\*
\* last is the command line that was run and how it ended, kept until the
\* Result has been reported:
\*   range     the address range typed in front of the command
\*   op        the command, "None" when there is none
\*   arg       its argument: the typed block, the lines loaded by Read, the
\*             mark, or the print flag of a bare address
\*   flags     the print flag typed behind the command
\*   out       the lines echoed at the end of exec_command
\*   err       OK, the error text, or "panic"
\*   resolved  extract_addr_range returned a range, which is (from, to)
\*   body      input_to_buffer read a text block from the input
\*   search    the scan of a search address
\*   splice    the call of replace_iter the command made
NoLast ==
    [range |-> NoRange, op |-> "None", arg |-> <<>>, flags |-> "None", err |-> OK,
     resolved |-> FALSE, from |-> 0, to |-> 0, body |-> FALSE, search |-> NoSearch,
     splice |-> NoSplice, out |-> <<>>]

\* main before the loop: the default State, or the State read_file loads from
\* the file named on the command line (the default State when that fails)
Load(s) ==
    /\ lines = s.lines
    /\ marks = s.marks
    /\ changed = s.changed
    /\ curline = s.curline
    /\ last_match = s.last_match
    /\ pc = "read"
    /\ last = NoLast

Init ==
    \/ Load(DefaultState)
    \/ \E c \in FileContents : Load(read_file(c))

\* one turn of the loop of main up to the return of exec_command: command
\* line `range op arg flags` was read (at pc = "read"), parsed and run with
\* result x
Step(range, op, arg, flags, x) ==
    /\ Len(x.res.s.lines) <= MaxLen
    /\ lines' = x.res.s.lines
    /\ marks' = x.res.s.marks
    /\ changed' = x.res.s.changed
    /\ curline' = x.res.s.curline
    /\ last_match' = x.res.s.last_match
    /\ pc' = IF x.res.end = "cmd" THEN "report" ELSE x.res.end
    /\ last' = [range |-> range, op |-> op, arg |-> arg, flags |-> flags,
                err |-> x.res.err, resolved |-> x.resolved, from |-> x.from, to |-> x.to,
                body |-> x.resolved /\ op \in {"Append", "Insert", "Change"},
                search |-> x.search, splice |-> x.res.splice,
                out |-> echo(x.res, op, flags, x.from, x.to)]

\* the end of the turn: main prints `?` for an error and reads the next line
Report ==
    /\ pc = "report"
    /\ pc' = "read"
    /\ last' = NoLast
    /\ UNCHANGED <<lines, marks, changed, curline, last_match>>

BareCmd ==
    /\ pc = "read"
    /\ \E range \in Ranges, flags \in PrintFlags :
           \E x \in {exec_command(Cur, range, "Bare", flags, NoIO)} : Step(range, "Bare", flags, flags, x)

AppendCmd ==
    /\ pc = "read"
    /\ \E range \in Ranges, b \in Blocks, flags \in PrintFlags :
           \E x \in {exec_command(Cur, range, "Append", b, NoIO)} :
               Step(range, "Append", b, flags, x)

InsertCmd ==
    /\ pc = "read"
    /\ \E range \in Ranges, b \in Blocks, flags \in PrintFlags :
           \E x \in {exec_command(Cur, range, "Insert", b, NoIO)} :
               Step(range, "Insert", b, flags, x)

ChangeCmd ==
    /\ pc = "read"
    /\ \E range \in Ranges, b \in Blocks, flags \in PrintFlags :
           \E x \in {exec_command(Cur, range, "Change", b, NoIO)} :
               Step(range, "Change", b, flags, x)

DeleteCmd ==
    /\ pc = "read"
    /\ \E range \in Ranges :
           \E x \in {exec_command(Cur, range, "Delete", <<>>, NoIO)} :
               Step(range, "Delete", <<>>, "None", x)

CurLineCmd ==
    /\ pc = "read"
    /\ \E range \in FewRanges :
           \E x \in {exec_command(Cur, range, "CurLine", <<>>, NoIO)} :
               Step(range, "CurLine", <<>>, "None", x)

EditCmd ==
    /\ pc = "read"
    /\ \E range \in FewRanges, open \in OpenOutcomes :
           \E x \in {exec_command(Cur, range, "Edit", <<>>, open)} :
               Step(range, "Edit", <<>>, "None", x)

MarkCmd ==
    /\ pc = "read"
    /\ \E range \in Ranges, m \in Marks :
           \E x \in {exec_command(Cur, range, "Mark", m, NoIO)} :
               Step(range, "Mark", m, "None", x)

ReadCmd ==
    /\ pc = "read"
    /\ \E range \in Ranges, open \in OpenOutcomes :
           \E x \in {exec_command(Cur, range, "Read", <<>>, open)} :
               Step(range, "Read", read_to_buffer(open.content), "None", x)

WriteCmd ==
    /\ pc = "read"
    /\ \E range \in FewRanges, wrote \in WriteOutcomes :
           \E x \in {exec_command(Cur, range, "Write", <<>>, wrote)} :
               Step(range, "Write", <<>>, "None", x)

QuitCmd ==
    /\ pc = "read"
    /\ \E range \in FewRanges :
           \E x \in {exec_command(Cur, range, "Quit", <<>>, NoIO)} :
               Step(range, "Quit", <<>>, "None", x)

Next ==
    \/ BareCmd
    \/ AppendCmd
    \/ InsertCmd
    \/ ChangeCmd
    \/ DeleteCmd
    \/ CurLineCmd
    \/ MarkCmd
    \/ ReadCmd
    \/ WriteCmd
    \/ EditCmd
    \/ QuitCmd
    \/ Report

Spec == Init /\ [][Next]_vars

\* ------------------------------------------------- write and load again
\* `w f` followed by `e f` until the file is loaded, on the buffers input_to_buffer
\* and read_to_buffer can build: their lines hold no newline, but they can
\* hold a carriage return (a typed line loses only its last character, the
\* newline).  Here last is [file: the bytes `w` wrote, wrote: the lines of
\* the buffer it wrote], and pc is "read", then "written", then "loaded".
RTLines == SeqsUpTo({"a", CR}, MaxLineLen)

RTInit ==
    /\ lines \in SeqsUpTo(RTLines, MaxLen)
    /\ marks \in [Marks -> {None} \cup {Some(i) : i \in 0..(Len(lines) - 1)}]
    /\ changed \in BOOLEAN
    /\ curline = 0
    /\ last_match = DefaultState.last_match
    /\ pc = "read"
    /\ last = [file |-> <<>>, wrote |-> <<>>]

\* the State a command leaves
Becomes(s) ==
    /\ lines' = s.lines
    /\ marks' = s.marks
    /\ changed' = s.changed
    /\ curline' = s.curline
    /\ last_match' = s.last_match

\* `w f`: fs::write(f, s.buffer.to_string()) succeeds
RTWrite ==
    /\ pc = "read"
    /\ \E x \in {exec_write(Cur, [ok |-> TRUE, content |-> Display(lines)])} :
           /\ Becomes(x.s)
           /\ pc' = IF x.err = OK THEN "written" ELSE pc
    /\ last' = [file |-> Display(lines), wrote |-> lines]

\* `e f`: refused once when the changed flag is set, else f is loaded
RTEdit ==
    /\ pc = "written"
    /\ \E x \in {exec_edit(Cur, [ok |-> TRUE, content |-> last.file])} :
           /\ Becomes(x.s)
           /\ pc' = IF x.err = OK THEN "loaded" ELSE pc
    /\ UNCHANGED last

RTNext ==
    \/ RTWrite
    \/ RTEdit

RoundTrip == RTInit /\ [][RTNext]_vars

\* ------------------------------------------------- the trailing flags
\* parse_command on the flag characters behind a command: many0(parse_flag)
\* collects the flags, the fold combines them from PrintFlag::None on, one
\* print_flag_set at a time.  Here last is [typed: the flag characters,
\* rest: the flags not yet folded, fs: the fold so far], and pc is "read",
\* then "fold", then "parsed".
PFInit ==
    /\ lines = DefaultState.lines
    /\ marks = DefaultState.marks
    /\ changed = DefaultState.changed
    /\ curline = DefaultState.curline
    /\ last_match = DefaultState.last_match
    /\ pc = "read"
    /\ \E typed \in SeqsUpTo({"n", "p"}, MaxFlags) :
           last = [typed |-> typed, rest |-> <<>>, fs |-> "None"]

PFParse ==
    /\ pc = "read"
    /\ pc' = "fold"
    /\ last' = [last EXCEPT !.rest = [k \in 1..Len(last.typed) |-> parse_flag(last.typed[k])]]
    /\ UNCHANGED <<lines, marks, changed, curline, last_match>>

PFFold ==
    /\ pc = "fold"
    /\ last.rest # <<>>
    /\ last' = [last EXCEPT !.rest = Tail(last.rest),
                            !.fs = print_flag_set(last.fs, Head(last.rest))]
    /\ UNCHANGED <<lines, marks, changed, curline, last_match, pc>>

PFDone ==
    /\ pc = "fold"
    /\ last.rest = <<>>
    /\ pc' = "parsed"
    /\ UNCHANGED <<lines, marks, changed, curline, last_match, last>>

PFNext ==
    \/ PFParse
    \/ PFFold
    \/ PFDone

ParseFlags == PFInit /\ [][PFNext]_vars

\* ------------------------------------------------------------ properties
\* a turn of the loop has just run a command line
Ran == pc \in {"report", "panic", "exit"}

\* the lines a command spliced in: none for Delete, else its block
NewLines(l) == IF l.op = "Delete" THEN <<>> ELSE l.arg

\* the mark slot that replacing the inclusive interval [from, to] by k lines
\* must leave for mark
ExpectedMark(mark, from, to, k) ==
    IF ~IsSome(mark) THEN None
    ELSE IF from <= Unwrap(mark) /\ Unwrap(mark) <= to THEN None
    ELSE IF Unwrap(mark) > to THEN Some(Unwrap(mark) + (k - (to - from + 1)))
    ELSE mark

\* C1: a replace of the inclusive interval [from, to] by k lines unsets the
\* marks inside it, moves the marks after it by k - (to - from + 1) and leaves
\* the marks before it and the unset ones alone; for the empty interval at p
\* (to = p - 1) no mark is unset and the marks at or after p move by k.
C1_MarkShift ==
    [][(pc = "read" /\ last'.splice.done) =>
         \A m \in Marks :
            marks'[m] = ExpectedMark(marks[m], last'.splice.start,
                                     last'.splice.end - 1, Len(NewLines(last')))]_vars

\* C1 happens: a Change put two lines in the place of one and a mark set
\* after the changed line has moved on by one
C1_Witness ==
    /\ pc = "report"
    /\ last.op = "Change"
    /\ last.splice.done
    /\ last.from = last.to
    /\ Len(last.arg) = 2
    /\ \E m \in Marks : marks[m] = Some(last.to + 2)

\* C2: every set mark is an index below the length of the buffer
C2_MarksInBuffer ==
    \A m \in Marks : IsSome(marks[m]) => Unwrap(marks[m]) < Len(lines)

\* C2 happens: a mark is still set after a Delete shortened the buffer
C2_Witness ==
    /\ pc = "report"
    /\ last.op = "Delete"
    /\ last.splice.done
    /\ \E m \in Marks : IsSome(marks[m])

\* the lines of ls outside the inclusive interval [from, to], in their order
Without(ls, from, to) == SubSeq(ls, 1, from) \o SubSeq(ls, to + 2, Len(ls))

\* C3: the changed flag is true exactly when a splice has happened since the
\* buffer was last loaded (Edit) or written (Write).  Stated step by step: a
\* splice sets the flag, a load or a write clears it, and nothing else
\* touches it (it is false in every initial state).
C3_ChangedIffMutated ==
    [][pc = "read" =>
         changed' = IF last'.splice.done THEN TRUE
                    ELSE IF last'.op \in {"Edit", "Write"} /\ last'.err = OK THEN FALSE
                    ELSE changed]_vars

\* C4: a command that ends in an error leaves the lines, the marks and the
\* current line as they were; so does in particular a search without a match
C4_ErrorKeepsBuffer ==
    [][(pc = "read" /\ pc' = "report" /\ last'.err # OK) =>
         (lines' = lines /\ marks' = marks /\ curline' = curline)]_vars

\* C4 happens: a search address scanned a buffer with lines and with a mark
\* set, and failed with NoMatch
C4_Witness ==
    /\ pc = "report"
    /\ last.err = NoMatch
    /\ last.search.scanned
    /\ lines # <<>>
    /\ \E m \in Marks : IsSome(marks[m])

\* C5: no command line makes the program panic
C5_NoPanic == pc # "panic"

\* the commands that index the buffer with the resolved range
Consumers == {"Bare", "Append", "Insert", "Change", "Delete", "Mark", "Read"}

\* C6: a command that indexes the buffer with the resolved range fails with
\* InvalidAddress and changes neither lines nor marks when the resolver
\* returned an index at or beyond the length of the buffer
C6_RangeChecked ==
    [][(pc = "read" /\ last'.op \in Consumers /\ last'.resolved
            /\ last'.to >= Len(lines)) =>
         (last'.err = InvalidAddress /\ lines' = lines /\ marks' = marks)]_vars

\* C7 as claimed: Insert, Append and Mark on a range with from # to fail
\* with ExpectedSingleLine and with no other error, and change neither lines
\* nor marks
C7_SingleLineAlways ==
    [][(pc = "read" /\ last'.op \in {"Insert", "Append", "Mark"} /\ last'.resolved
            /\ last'.from # last'.to) =>
         (last'.err = ExpectedSingleLine /\ lines' = lines /\ marks' = marks)]_vars

\* C7 as amended: Insert and Append on a range with from # to fail with
\* ExpectedSingleLine; Mark on such a range fails with ExpectedSingleLine
\* when from and to are lines of the buffer and with InvalidAddress when one
\* of them is not; in every case neither lines nor marks change
C7_SingleLine ==
    [][(pc = "read" /\ last'.op \in {"Insert", "Append", "Mark"} /\ last'.resolved
            /\ last'.from # last'.to) =>
         /\ last'.err = IF last'.op = "Mark" /\ last'.to >= Len(lines)
                        THEN InvalidAddress ELSE ExpectedSingleLine
         /\ lines' = lines
         /\ marks' = marks]_vars

\* C7 happens: a Mark on a range of two lines of the buffer was refused
C7_Witness ==
    /\ pc = "report"
    /\ last.op = "Mark"
    /\ last.resolved
    /\ last.from # last.to
    /\ last.to < Len(lines)
    /\ last.err = ExpectedSingleLine

\* C8: a Delete of [from, to] removes exactly these lines and, when lines
\* remain, leaves the current line at min(to + 1, length - 1)
C8_Delete ==
    [][(pc = "read" /\ last'.op = "Delete" /\ last'.err = OK) =>
         /\ lines' = Without(lines, last'.from, last'.to)
         /\ lines' # <<>> => curline' = Min(last'.to + 1, Len(lines') - 1)]_vars

\* C9: an Append at the valid line L puts the block right after line L, also
\* when L is the last line; an Insert at L puts it right before line L
C9_AppendInsert ==
    [][(pc = "read" /\ last'.op \in {"Append", "Insert"} /\ last'.err = OK
            /\ last'.to < Len(lines)) =>
         lines' = IF last'.op = "Append"
                  THEN SubSeq(lines, 1, last'.to + 1) \o last'.arg
                           \o SubSeq(lines, last'.to + 2, Len(lines))
                  ELSE SubSeq(lines, 1, last'.to) \o last'.arg
                           \o SubSeq(lines, last'.to + 1, Len(lines))]_vars

\* index k lies after start and before j on the way round the buffer that
\* leaves start and goes forward
BetweenForward(start, k, j) ==
    IF j > start THEN start < k /\ k < j ELSE k > start \/ k < j

\* C10: in a buffer with lines of which one matches the pattern, a forward
\* search compares at most length lines and ends with a match, which is the
\* range (i, i) of the matching line closest after the start on the way round
\* (the start itself only when nothing else matches)
C10_ForwardSearch ==
    [][(pc = "read" /\ last'.search.dir = "Next" /\ last'.search.scanned
            /\ \E k \in 1..Len(lines) : is_match(last'.search.re, lines[k])) =>
         /\ last'.resolved
         /\ last'.from = last'.to
         /\ last'.search.cmp >= 1
         /\ last'.search.cmp <= Len(lines)
         /\ last'.from < Len(lines)
         /\ is_match(last'.search.re, lines[last'.from + 1])
         /\ \A k \in 0..(Len(lines) - 1) :
               is_match(last'.search.re, lines[k + 1]) =>
                   ~BetweenForward(last'.search.start, k, last'.from)]_vars

\* C10 happens: a forward search wrapped round the end of the buffer and
\* matched a line before the line it started from
C10_Witness ==
    /\ pc = "report"
    /\ last.search.dir = "Next"
    /\ last.search.scanned
    /\ last.resolved
    /\ last.from < last.search.start
    /\ last.search.start < Len(lines)

\* C11: an Edit or Quit that reaches the guard with the changed flag set is
\* refused with the file-modified warning, leaves lines, marks and current
\* line alone and clears the flag; with the flag clear (as it is right after
\* a refusal) it is not refused by the guard; and the process exits only
\* through a Quit run with the flag clear
C11_EditQuitGuard ==
    [][pc = "read" =>
         /\ (last'.op \in {"Edit", "Quit"} /\ last'.resolved /\ changed) =>
                /\ pc' = "report"
                /\ last'.err = FileModified
                /\ lines' = lines
                /\ marks' = marks
                /\ curline' = curline
                /\ changed' = FALSE
         /\ (last'.op \in {"Edit", "Quit"} /\ last'.resolved /\ ~changed) =>
                last'.err # FileModified
         /\ pc' = "exit" => (last'.op = "Quit" /\ ~changed /\ last'.err = OK)]_vars

\* C11 happens: a Quit was refused on a buffer with lines and a mark, and the
\* flag is clear now
C11_Witness ==
    /\ pc = "report"
    /\ last.op = "Quit"
    /\ last.err = FileModified
    /\ ~changed
    /\ lines # <<>>
    /\ \E m \in Marks : IsSome(marks[m])

\* C12: a Write that succeeds leaves the changed flag false and the lines,
\* the marks and the current line as they were
C12_WriteClearsChanged ==
    [][(pc = "read" /\ last'.op = "Write" /\ last'.err = OK) =>
         (~changed' /\ lines' = lines /\ marks' = marks /\ curline' = curline)]_vars

\* C13 as claimed: the whole-buffer range resolves to (0, N - 1) on a buffer
\* of every length N
C13_WholeBufferAlways ==
    [][(pc = "read" /\ last'.range = WholeBuffer) =>
         (last'.resolved /\ last'.from = 0 /\ last'.to = Len(lines) - 1)]_vars

\* C13 as amended: the whole-buffer range resolves to (0, N - 1) on a buffer
\* of length N >= 1, whatever the current line, the marks and the search
\* state are; on the empty buffer it does not resolve, the command line ends
\* with the error of the integer conversion and nothing changes
C13_WholeBuffer ==
    [][(pc = "read" /\ last'.range = WholeBuffer) =>
         IF Len(lines) >= 1
         THEN last'.resolved /\ last'.from = 0 /\ last'.to = Len(lines) - 1
         ELSE /\ ~last'.resolved
              /\ last'.err = TryFromIntError
              /\ pc' = "report"
              /\ UNCHANGED <<lines, marks, changed, curline, last_match>>]_vars

\* C13 happens: `%p` echoed a buffer of several lines while the current line
\* was not the first, a mark was set and a search had matched
C13_Witness ==
    /\ pc = "report"
    /\ last.range = WholeBuffer
    /\ last.op = "Bare"
    /\ last.resolved
    /\ last.from = 0
    /\ last.to = Len(lines) - 1
    /\ Len(last.out) >= 2
    /\ curline >= 1
    /\ IsSome(last_match.idx)
    /\ \E m \in Marks : IsSome(marks[m])

\* C14: a buffer whose lines hold no newline, written to a file and loaded
\* from it again, has the lines it had when it was written, a false changed
\* flag and no mark set
C14_RoundTrip ==
    pc = "loaded" => (lines = last.wrote /\ ~changed /\ marks = NoMarks)

\* C15: the print flag parsed from a sequence of flag characters is Number
\* when an `n` is among them, else Print when a `p` is among them, else
\* None; so it depends only on which characters occur, not on their order
\* or number
C15_FlagPrecedence ==
    pc = "parsed" =>
        last.fs = IF \E k \in 1..Len(last.typed) : last.typed[k] = "n" THEN "Number"
                  ELSE IF \E k \in 1..Len(last.typed) : last.typed[k] = "p" THEN "Print"
                  ELSE "None"

\* C15 happens: `pnp` was parsed, a single `n` between two `p`
C15_Witness ==
    /\ pc = "parsed"
    /\ last.typed = <<"p", "n", "p">>
    /\ last.fs = "Number"

\* C16: an Append, Insert or Change with a print flag that spliced its block
\* in echoes exactly the lines of the block, in order, each with the 1-based
\* number of the place it has in the buffer when the flag is Number
C16_EchoesBlock ==
    [][(pc = "read" /\ last'.op \in {"Append", "Insert", "Change"}
            /\ last'.splice.done /\ last'.flags # "None") =>
         last'.out = [k \in 1..Len(last'.arg) |->
                        [n |-> IF last'.flags = "Number" THEN last'.splice.start + k
                               ELSE 0,
                         s |-> last'.arg[k]]]]_vars

\* C17: a text block is read from the input only for a command that passed
\* its validation: for an Append or Insert only when from = to, for a Change
\* only when from and to are lines of the buffer
C17_BodyAfterValidation ==
    [][(pc = "read" /\ last'.body) =>
         /\ last'.op \in {"Append", "Insert"} => last'.from = last'.to
         /\ last'.op = "Change" => last'.to < Len(lines)]_vars

\* index k lies before start and after j on the way round the buffer that
\* leaves start and goes backward
BetweenBackward(start, k, j) ==
    IF j < start THEN j < k /\ k < start ELSE k < start \/ k > j

\* the number of lines on the way backward from start to j, j included
StepsBackward(n, start, j) == IF j < start THEN start - j ELSE start + n - j

\* C18: in a buffer with lines of which one matches the pattern, a backward
\* search ends with a match, which is the range (i, i) of the matching line
\* closest before the start on the way round (the start itself only when
\* nothing else matches); from a start that is a line of the buffer it has
\* compared the lines start - 1 down to 0 and then length - 1 down to start
\* as far as the match, at most length lines
C18_BackwardSearch ==
    [][(pc = "read" /\ last'.search.dir = "Prev" /\ last'.search.scanned
            /\ \E k \in 1..Len(lines) : is_match(last'.search.re, lines[k])) =>
         /\ last'.resolved
         /\ last'.from = last'.to
         /\ last'.from < Len(lines)
         /\ is_match(last'.search.re, lines[last'.from + 1])
         /\ \A k \in 0..(Len(lines) - 1) :
               is_match(last'.search.re, lines[k + 1]) =>
                   ~BetweenBackward(last'.search.start, k, last'.from)
         /\ last'.search.cmp >= 1
         /\ last'.search.cmp <= Len(lines)
         /\ last'.search.start < Len(lines) =>
               last'.search.cmp = StepsBackward(Len(lines), last'.search.start, last'.from)]_vars

\* C18 happens: a backward search wrapped round the start of the buffer and
\* matched a line behind the line it started from
C18_Witness ==
    /\ pc = "report"
    /\ last.search.dir = "Prev"
    /\ last.search.scanned
    /\ last.resolved
    /\ last.from > last.search.start
    /\ last.from < Len(lines)

\* C19: a search address with an empty pattern ends with NoPreviousSearch
\* exactly when no pattern is stored; when one is stored (by a search that
\* matched or by one that ended in NoMatch) the search scans the buffer for
\* the stored pattern
C19_NoPreviousSearch ==
    [][(pc = "read" /\ last'.search.dir # "None" /\ last'.search.pat = NoRe) =>
         /\ last'.err = NoPreviousSearch <=> ~IsSome(last_match.re)
         /\ IsSome(last_match.re) =>
               (last'.search.scanned /\ last'.search.re = Unwrap(last_match.re))]_vars

\* C20: a command line without a search address leaves the search state, the
\* last matched index and the last compiled pattern, as it was
C20_SearchStateFrame ==
    [][(pc = "read" /\ last'.search.dir = "None") => last_match' = last_match]_vars

\* C21: whenever the buffer has lines, the current line is one of them
C21_CurlineInBuffer == lines # <<>> => curline < Len(lines)

\* the index at which the line of index i sits after start..end was replaced
\* by k lines, for a line outside start..end
MovedTo(i, start, end, k) == IF i >= end THEN i - (end - start) + k ELSE i

\* C22: a mark follows its line.  Over every command line but a successful
\* Edit: a set mark whose line the command did not replace or delete
\* resolves afterwards to the index where that line now sits, and the line
\* there is the marked one; a mark whose line was replaced or deleted
\* resolves to InvalidMark; an unset mark stays unset; only a successful
\* Mark command on the slot sets it, to the addressed line
C22_MarksTrackLines ==
    [][(pc = "read" /\ ~(last'.op = "Edit" /\ last'.err = OK)) =>
         \A m \in Marks :
            LET now == line_to_index([lines |-> lines', marks |-> marks',
                                      curline |-> curline'], Mark(m))
                sp == last'.splice
            IN  IF last'.op = "Mark" /\ last'.err = OK /\ last'.arg = m
                THEN now = Ok(last'.to) /\ lines' = lines
                ELSE IF ~IsSome(marks[m]) THEN now.err = InvalidMark
                ELSE IF ~sp.done THEN now = Ok(Unwrap(marks[m])) /\ lines' = lines
                ELSE IF range_contains(sp.start, sp.end, Unwrap(marks[m]))
                THEN now.err = InvalidMark
                ELSE /\ now = Ok(MovedTo(Unwrap(marks[m]), sp.start, sp.end,
                                         Len(NewLines(last'))))
                     /\ now.v < Len(lines')
                     /\ lines'[now.v + 1] = lines[Unwrap(marks[m]) + 1]]_vars

\* C22 happens: lines were inserted in front of a marked line `b`, and the
\* mark has moved on with it
C22_Witness ==
    /\ pc = "report"
    /\ last.op \in {"Insert", "Append", "Read"}
    /\ last.splice.done
    /\ Len(last.arg) >= 1
    /\ \E m \in Marks :
          /\ IsSome(marks[m])
          /\ Unwrap(marks[m]) >= last.splice.start + Len(last.arg)
          /\ lines[Unwrap(marks[m]) + 1] = <<"b">>

====
